---- MODULE Spec2Model ----
(***************************************************************************)
(* The file-backed secret registry of stable-io/commons-go (package        *)
(* secrets): the loader (fileSecretLoader), the per-secret entity          *)
(* (fileSecret), the shared watch source and the dispatch goroutine.       *)
(*                                                                         *)
(* Every method is modelled as the sequence of its accesses to shared      *)
(* state (one step per lock-protected access, channel operation or file    *)
(* system call).  A panic passes the sync.Once it was raised in, which is  *)
(* marked done; in the dispatch goroutine it then runs the deferred Close()*)
(* and ends the program, in a caller's goroutine it ends the program unless*)
(* the caller recovers it.  Six specifications run the same steps:         *)
(*   Spec      serialises the calls: a call (or the handling of one watch  *)
(*             event) runs to its return before anything else moves;       *)
(*   FairSpec  is Spec for runs of a few calls, with the dispatch          *)
(*             goroutine scheduled fairly;                                 *)
(*   NewSpec   is Spec for runs of a few calls, started from every outcome *)
(*             of the constructor;                                         *)
(*   KeySpec   is Spec for runs of a few calls, with one more key;         *)
(*   ConcSpec  interleaves the steps of the dispatch goroutine, two caller *)
(*             threads and the environment freely, for runs of a few       *)
(*             calls on the key "a", with a parent context and a watch     *)
(*             source that stay live;                                      *)
(*   SoloSpec  interleaves the steps of the dispatch goroutine and one     *)
(*             caller thread, for longer runs on the key "a".              *)
(***************************************************************************)
EXTENDS Integers, Sequences, FiniteSets, TLC

\* ------------------------------------------------------------------ bounds

\* Entities ever constructed by GetSecret.
MaxEnts == 4
\* Subscriber channels ever made by ListenChanges.
MaxChans == 2
\* Events (and errors) the watch source holds undelivered.
MaxQueue == 1
\* Calls and watch reports started in a run whose calls interleave.
MaxCalls == 4
\* Calls and watch reports started in a run of one caller.
MaxSoloCalls == 6
\* Calls and watch reports started in a run checked for progress.
MaxFairCalls == 5

\* ----------------------------------------------------------------- strings

\* Strings that are searched (keys, paths, event texts) are sequences of
\* characters.
BasePath == <<"/", "s">>

KeyA == <<"a">>
KeyAB == <<"a", "b">>
EmptyKey == <<>>

\* Keys of the files the environment may create under the base path.
Keys == {KeyA, KeyAB}
\* Arguments the callers pass to GetSecret.
KeyArgs == Keys \cup {EmptyKey}
\* A key that occurs in the names of operations ("WRITE", "CREATE") and in
\* the path of no file above.
KeyE == <<"E">>

\* filepath.Join(basePath, key) for a key without separators.
Join(base, key) == IF key = <<>> THEN base ELSE base \o <<"/">> \o key

\* strings.Contains(s, sub)
Contains(s, sub) ==
    \E i \in 0..(Len(s) - Len(sub)) : SubSeq(s, i + 1, i + Len(sub)) = sub

\* fsnotify operations and their names (Op.String()).
Ops == {"WRITE", "CREATE", "REMOVE"}
OpChars(op) ==
    CASE op = "WRITE" -> <<"W", "R", "I", "T", "E">>
      [] op = "CREATE" -> <<"C", "R", "E", "A", "T", "E">>
      [] OTHER -> <<"R", "E", "M", "O", "V", "E">>

\* fmt's %-13s: s followed by blanks up to the width
PadRight(s, width) == s \o [i \in 1..(width - Len(s)) |-> " "]

\* event.String() (fsnotify, "%-13s %q"): the operation's name, padded, and
\* the quoted file name.
EventString(ev) ==
    PadRight(OpChars(ev.op), 13) \o <<" ", "\"">> \o ev.name \o <<"\"">>

\* the test of the operation letting a Remove through as well
IsWriteOrCreateOrRemove(ev) == ev.op \in {"WRITE", "CREATE", "REMOVE"}

\* event.Has(fsnotify.Write) || event.Has(fsnotify.Create)
IsWriteOrCreate(ev) == ev.op = "WRITE" \/ ev.op = "CREATE"

\* ------------------------------------------------------------- file system

\* The FileReader is an external collaborator: a Stat or ReadFile call
\* observes whatever the file is at that moment (it may have been written,
\* deleted or made unreadable since the last call), so each call draws its
\* outcome from the outcomes a file can give.
Contents == {"A", "B"}
\* a Stat error of which os.IsNotExist holds
NoFile == "ENOENT"
\* a ReadFile error (the file is gone or cannot be read)
ReadError == "EIO"
StatResults == {"ok", NoFile}
ReadResults == Contents \cup {ReadError}

\* ------------------------------------------------------------------- state

Users == {"u1", "u2"}
Dispatcher == "d"
Threads == Users \cup {Dispatcher}

VARIABLES
    isClosed,   \* fileSecretLoader.isClosed
    closeOnce,  \* fileSecretLoader.closeOnce: "idle", "running", "done"
    ctxDone,    \* fileSecretLoader.ctx is cancelled
    secrets,    \* fileSecretLoader.secrets: key -> entity (0: no entry)
    lerr,       \* fileSecretLoader.err
    ents,       \* the fileSecret objects constructed so far
    chans,      \* the subscriber channels made so far
    watcher,    \* the shared FileWatcher
    th,         \* each thread's position and locals
    panic,      \* the runtime panic that ends the process, or "none"
    serial,     \* TRUE: calls run one at a time; FALSE: their steps interleave
    made,       \* what NewFileSecretLoader returned: a loader or nil, and the error
    budget      \* whether runs are cut, and the calls and watch reports left

vars == <<isClosed, closeOnce, ctxDone, secrets, lerr, ents, chans, watcher,
          th, panic, serial, made, budget>>

\* What a call returned: the secret (e) or channel (ch), 0 for nil, and whether
\* the error was nil (ok).
NoRes == [op |-> "none", key |-> <<>>, e |-> 0, ok |-> FALSE, ch |-> 0]

\* A thread's position and locals: stat and content are what its Stat and
\* ReadFile calls gave; err is the error it holds (ListenChanges' err, the
\* loop's errW); filePath is the event text the loop passes on; dying tells
\* that the goroutine runs its deferred calls because it has panicked; r is
\* what its call returned, held while the thread is at "returned".
Local(pc, op) ==
    [pc |-> pc, op |-> op, key |-> <<>>, e |-> 0, snap |-> {}, subs |-> <<>>,
     active |-> <<>>, stat |-> "", content |-> "", ret |-> "", err |-> "nil",
     filePath |-> <<>>, dying |-> FALSE, r |-> NoRes]

\* Where a thread rests between calls.
Home(t) == IF t = Dispatcher THEN "select" ELSE "idle"

\* Where a thread rests when the constructor has made no loader (a caller has
\* nothing to call) or has not started the dispatch goroutine.
Away(t) == IF t = Dispatcher THEN "unstarted" ELSE "noloader"

\* NewFileSecretLoader: the factory's error is returned with no loader; the
\* error of startWatching, which adds the base path to the watcher before it
\* starts the dispatch goroutine, is returned with the loader.
NewFileSecretLoader(factoryFails, addFails) ==
    IF factoryFails THEN [loader |-> FALSE, err |-> "factory", started |-> FALSE]
    ELSE IF addFails THEN [loader |-> TRUE, err |-> "add", started |-> FALSE]
    ELSE [loader |-> TRUE, err |-> "nil", started |-> TRUE]

\* NewFileSecretLoader starting the dispatch goroutine before it looks at the
\* error of Add(basePath)
ConstructedStarted(factoryFails, addFails) ==
    LET new == NewFileSecretLoader(factoryFails, addFails) IN
    /\ made = [loader |-> new.loader, err |-> new.err]
    /\ isClosed = FALSE
    /\ closeOnce = "idle"
    /\ ctxDone = FALSE
    /\ secrets = [k \in Keys |-> 0]
    /\ lerr = "nil"
    /\ ents = <<>>
    /\ chans = <<>>
    /\ watcher = [closed |-> FALSE, events |-> <<>>, errors |-> <<>>, closes |-> 0]
    /\ th = [t \in Threads |-> Local(IF new.loader THEN Home(t) ELSE Away(t), "none")]
    /\ panic = "none"

\* The state NewFileSecretLoader leaves for the outcomes of the factory and
\* of the watcher's Add(basePath).
Constructed(factoryFails, addFails) ==
    LET new == NewFileSecretLoader(factoryFails, addFails) IN
    /\ made = [loader |-> new.loader, err |-> new.err]
    /\ isClosed = FALSE
    /\ closeOnce = "idle"
    /\ ctxDone = FALSE
    /\ secrets = [k \in Keys |-> 0]
    /\ lerr = "nil"
    /\ ents = <<>>
    /\ chans = <<>>
    /\ watcher = [closed |-> FALSE, events |-> <<>>, errors |-> <<>>, closes |-> 0]
    /\ th = [t \in Threads |->
               Local(IF t = Dispatcher
                     THEN (IF new.started THEN Home(t) ELSE Away(t))
                     ELSE (IF new.loader THEN Home(t) ELSE Away(t)), "none")]
    /\ panic = "none"

\* The state NewFileSecretLoader leaves when it succeeds: the watcher is
\* created, the base path is added to it and the dispatch goroutine is
\* started.
InitState == Constructed(FALSE, FALSE)

\* ----------------------------------------------------------------- helpers

Idle(t) == th[t].pc \in {"idle", "select", "exited", "unstarted"}

\* The watch source holds an event or an error the dispatch loop has not taken.
Pending == watcher.events # <<>> \/ watcher.errors # <<>>

\* The process has ended: the panic of a goroutine has run the deferred calls
\* and nothing has recovered it.
Dead == \E t \in Threads : th[t].pc = "fatal"

\* The loop's select can return: the context is done or the streams are closed.
Ending == ctxDone \/ watcher.closed

\* Thread t may take a step: the process runs, and when calls are serialised
\* no other thread is inside a call and the dispatch loop takes what the watch
\* source holds, or ends, before a caller makes its next call.
Sched(t) ==
    /\ ~Dead
    /\ serial => /\ t # "u2"
                 /\ \A u \in Threads \ {t} : Idle(u)
                 /\ (t # Dispatcher /\ th[Dispatcher].pc = "select") => ~Pending
                 /\ (th[t].pc = "idle" /\ th[Dispatcher].pc = "select") => ~Ending

\* The environment may take a step.
EnvSched ==
    /\ ~Dead
    /\ serial => /\ \A u \in Threads : Idle(u)
                 /\ th[Dispatcher].pc = "select" => ~(Pending \/ Ending)

At(t, pc) == Sched(t) /\ th[t].pc = pc

\* A new call or watch report may start, and its start is counted where the
\* runs explored are cut after a number of starts.
Spend ==
    /\ budget.limited => budget.left > 0
    /\ budget' = IF budget.limited THEN [budget EXCEPT !.left = @ - 1] ELSE budget

Goto(t, pc) == th' = [th EXCEPT ![t].pc = pc]

\* The call of thread t returns r (the dispatch goroutine ends instead, or
\* goes on panicking when the call was the deferred one of a panic); what the
\* call's Stat and ReadFile gave stays with the result.
Return(t, r, stat, content) ==
    th' = [th EXCEPT ![t] = IF t = Dispatcher
                            THEN Local(IF th[t].dying THEN "panicking" ELSE "exited", "none")
                            ELSE [Local("returned", r.op) EXCEPT
                                    !.r = r, !.stat = stat, !.content = content]]

\* The caller has its result and is free to make its next call.
Resume(t) ==
    /\ At(t, "returned")
    /\ th' = [th EXCEPT ![t] = Local("idle", "none")]
    /\ UNCHANGED <<isClosed, closeOnce, ctxDone, secrets, lerr, ents, chans,
                   watcher, panic, serial, made, budget>>

\* ------------------------------------------------- fileSecretLoader.GetSecret

GetSecretCall(t, k) ==
    /\ At(t, "idle")
    /\ Len(ents) + Cardinality({u \in Users : th[u].op = "GetSecret"}) < MaxEnts
    /\ th' = [th EXCEPT ![t] = [Local("gs_closed", "GetSecret") EXCEPT !.key = k]]
    /\ UNCHANGED <<isClosed, closeOnce, ctxDone, secrets, lerr, ents, chans,
                   watcher, panic, serial, made>>
    /\ Spend

\* return nil, error
GsFail(t, stat, content) ==
    Return(t, [op |-> "GetSecret", key |-> th[t].key, e |-> 0, ok |-> FALSE, ch |-> 0],
           stat, content)
\* return secret, nil
GsOk(t, e) ==
    Return(t, [op |-> "GetSecret", key |-> th[t].key, e |-> e, ok |-> TRUE, ch |-> 0],
           th[t].stat, th[t].content)

\* if fsl.isClosed.Get() ...; if secretKey == "" ...
GetSecretClosed(t) ==
    /\ At(t, "gs_closed")
    /\ IF isClosed \/ th[t].key = EmptyKey
       THEN GsFail(t, "", "")
       ELSE Goto(t, "gs_lookup")
    /\ UNCHANGED <<isClosed, closeOnce, ctxDone, secrets, lerr, ents, chans,
                   watcher, panic, serial, made, budget>>

\* GetSecret without the lookup of the key in fsl.secrets
GetSecretLookupSkipped(t) ==
    /\ At(t, "gs_lookup")
    /\ Goto(t, "gs_stat")
    /\ UNCHANGED <<isClosed, closeOnce, ctxDone, secrets, lerr, ents, chans,
                   watcher, panic, serial, made, budget>>

\* if secret, exists := fsl.secrets.Get(secretKey); exists
GetSecretLookup(t) ==
    /\ At(t, "gs_lookup")
    /\ IF secrets[th[t].key] # 0
       THEN GsOk(t, secrets[th[t].key])
       ELSE Goto(t, "gs_stat")
    /\ UNCHANGED <<isClosed, closeOnce, ctxDone, secrets, lerr, ents, chans,
                   watcher, panic, serial, made, budget>>

\* GetSecret going on to read a file Stat did not find
GetSecretStatSkipped(t) ==
    /\ At(t, "gs_stat")
    /\ \E st \in StatResults :
        th' = [th EXCEPT ![t].pc = "gs_read", ![t].stat = st]
    /\ UNCHANGED <<isClosed, closeOnce, ctxDone, secrets, lerr, ents, chans,
                   watcher, panic, serial, made, budget>>

\* if _, err := fsl.reader.Stat(secretPath); os.IsNotExist(err)
GetSecretStat(t) ==
    /\ At(t, "gs_stat")
    /\ \E st \in StatResults :
        IF st = NoFile
        THEN GsFail(t, st, "")
        ELSE th' = [th EXCEPT ![t].pc = "gs_read", ![t].stat = st]
    /\ UNCHANGED <<isClosed, closeOnce, ctxDone, secrets, lerr, ents, chans,
                   watcher, panic, serial, made, budget>>

\* content, err := fsl.reader.ReadFile(secretPath); if err != nil
GetSecretRead(t) ==
    /\ At(t, "gs_read")
    /\ \E rd \in ReadResults :
        IF rd = ReadError
        THEN GsFail(t, th[t].stat, rd)
        ELSE th' = [th EXCEPT ![t].pc = "gs_set", ![t].content = rd]
    /\ UNCHANGED <<isClosed, closeOnce, ctxDone, secrets, lerr, ents, chans,
                   watcher, panic, serial, made, budget>>

\* result := &fileSecret{...}
NewSecret(k, content) ==
    [key |-> k, path |-> Join(BasePath, k), value |-> content, subs |-> <<>>,
     closed |-> FALSE, closeOnce |-> "idle", watchOnce |-> "idle", err |-> "nil"]

\* GetSecret returning the new secret without fsl.secrets.Set
GetSecretSetSkipped(t) ==
    /\ At(t, "gs_set")
    /\ ents' = Append(ents, NewSecret(th[t].key, th[t].content))
    /\ GsOk(t, Len(ents) + 1)
    /\ UNCHANGED <<isClosed, closeOnce, ctxDone, secrets, lerr, chans, watcher,
                   panic, serial, made, budget>>

\* fsl.secrets.Set(secretKey, result); return result, nil
GetSecretSet(t) ==
    /\ At(t, "gs_set")
    /\ ents' = Append(ents, NewSecret(th[t].key, th[t].content))
    /\ secrets' = [secrets EXCEPT ![th[t].key] = Len(ents) + 1]
    /\ GsOk(t, Len(ents) + 1)
    /\ UNCHANGED <<isClosed, closeOnce, ctxDone, lerr, chans, watcher, panic,
                   serial, made, budget>>

\* The steps of a GetSecret call that has been made.
GetSecretBody(t) ==
    \/ GetSecretClosed(t)
    \/ GetSecretLookup(t)
    \/ GetSecretStat(t)
    \/ GetSecretRead(t)
    \/ GetSecretSet(t)

GetSecret(t) ==
    \/ \E k \in KeyArgs : GetSecretCall(t, k)
    \/ GetSecretBody(t)

\* --------------------------------------------------------- fileSecret.Close

\* Frame of a step that touches only the entities, the channels and the
\* thread's locals.
EntityFrame ==
    UNCHANGED <<isClosed, closeOnce, ctxDone, secrets, lerr,
                watcher, serial, made, budget>>

\* Thread t returns from fs.Close() to the place that called it.
CloseReturn(t) == th' = [th EXCEPT ![t].pc = th[t].ret, ![t].subs = <<>>]

\* Where the panic of goroutine t goes when it has left the frames of the
\* registry's code: the dispatch goroutine runs its deferred fsl.Close()
\* (unless the panic comes out of that call); the code has deferred nothing
\* else, so the panic then leaves Close() to the caller, or the goroutine.
Unwound(t) ==
    IF t = Dispatcher /\ th[t].op = "dispatch"
    THEN [Local("rc_once", "Close") EXCEPT !.dying = TRUE]
    ELSE Local("panicking", th[t].op)

\* Goroutine t panics at a channel operation: inside fs.closeOnce.Do the
\* panic first passes the Once, in the broadcast it leaves handleFileChange.
Panics(t, msg) ==
    /\ panic' = IF panic = "none" THEN msg ELSE panic
    /\ th' = IF th[t].pc = "ec_close"
             THEN [th EXCEPT ![t].pc = "ec_panic"]
             ELSE [th EXCEPT ![t] = Unwound(t)]

\* The panic of goroutine t leaves the registry's code: the dispatch
\* goroutine has no recover and the process ends; a caller's goroutine ends
\* the process as well unless the caller recovers, and then it goes on.
PanicOut(t) ==
    /\ At(t, "panicking")
    /\ \E recovers \in BOOLEAN :
        th' = IF t # Dispatcher /\ recovers
              THEN [th EXCEPT ![t] = Local("idle", "none")]
              ELSE [th EXCEPT ![t].pc = "fatal"]
    /\ UNCHANGED <<isClosed, closeOnce, ctxDone, secrets, lerr, ents, chans,
                   watcher, panic, serial, made, budget>>

\* close(ch) by thread t, which goes on as in next; closing a closed channel
\* panics.
CloseChan(t, c, next) ==
    IF chans[c].closed
    THEN /\ Panics(t, "close of closed channel")
         /\ UNCHANGED chans
    ELSE /\ chans' = [chans EXCEPT ![c].closed = TRUE]
         /\ th' = [th EXCEPT ![t] = next]
         /\ UNCHANGED panic

\* if fs.closed.Get() { return }
SecretCloseCheck(t) ==
    /\ At(t, "ec_check")
    /\ IF ents[th[t].e].closed
       THEN CloseReturn(t)
       ELSE Goto(t, "ec_once")
    /\ UNCHANGED <<ents, chans, panic>>
    /\ EntityFrame

\* fs.closeOnce.Do(func() {...}): the first caller runs the body, a caller
\* that arrives while it runs waits for it, a later caller returns at once.
SecretCloseOnce(t) ==
    /\ At(t, "ec_once")
    /\ ents[th[t].e].closeOnce # "running"
    /\ IF ents[th[t].e].closeOnce = "done"
       THEN CloseReturn(t) /\ UNCHANGED ents
       ELSE /\ ents' = [ents EXCEPT ![th[t].e].closeOnce = "running"]
            /\ Goto(t, "ec_mark")
    /\ UNCHANGED <<chans, panic>>
    /\ EntityFrame

\* fs.closed.Set(true)
SecretCloseMark(t) ==
    /\ At(t, "ec_mark")
    /\ ents' = [ents EXCEPT ![th[t].e].closed = TRUE]
    /\ Goto(t, "ec_get")
    /\ UNCHANGED <<chans, panic>>
    /\ EntityFrame

\* for _, sub := range fs.subscribers.Get()
SecretCloseGet(t) ==
    /\ At(t, "ec_get")
    /\ th' = [th EXCEPT ![t].pc = "ec_close", ![t].subs = ents[th[t].e].subs]
    /\ UNCHANGED <<ents, chans, panic>>
    /\ EntityFrame

\* fs.Close() leaving a subscriber's channel open
SecretCloseChanSkipped(t) ==
    /\ At(t, "ec_close")
    /\ th[t].subs # <<>>
    /\ th' = [th EXCEPT ![t].subs = Tail(th[t].subs)]
    /\ UNCHANGED <<ents, chans, panic>>
    /\ EntityFrame

\* close(sub.ch)
SecretCloseChan(t) ==
    /\ At(t, "ec_close")
    /\ th[t].subs # <<>>
    /\ CloseChan(t, Head(th[t].subs), [th[t] EXCEPT !.subs = Tail(@)])
    /\ UNCHANGED ents
    /\ EntityFrame

\* fs.Close() clearing the cached value with the subscriber list
SecretCloseClearValue(t) ==
    /\ At(t, "ec_close")
    /\ th[t].subs = <<>>
    /\ ents' = [ents EXCEPT ![th[t].e].subs = <<>>, ![th[t].e].value = ""]
    /\ Goto(t, "ec_done")
    /\ UNCHANGED <<chans, panic>>
    /\ EntityFrame

\* fs.subscribers.Set([]subscriberInfo{})
SecretCloseClear(t) ==
    /\ At(t, "ec_close")
    /\ th[t].subs = <<>>
    /\ ents' = [ents EXCEPT ![th[t].e].subs = <<>>]
    /\ Goto(t, "ec_done")
    /\ UNCHANGED <<chans, panic>>
    /\ EntityFrame

\* the function passed to fs.closeOnce.Do returns or panics: the Once is
\* done either way (sync.Once defers that), and a panic goes on into
\* fsl.closeOnce.Do when the registry's Close() called fs.Close()
SecretCloseDone(t) ==
    /\ Sched(t)
    /\ th[t].pc \in {"ec_done", "ec_panic"}
    /\ ents' = [ents EXCEPT ![th[t].e].closeOnce = "done"]
    /\ IF th[t].pc = "ec_done" THEN CloseReturn(t)
       ELSE IF th[t].ret = "rc_del" THEN Goto(t, "rc_panic")
       ELSE th' = [th EXCEPT ![t] = Unwound(t)]
    /\ UNCHANGED <<chans, panic>>
    /\ EntityFrame

\* fileSecret.Err(): return fs.err.Get()
SecretErr(e) == ents[e].err

SecretClose(t) ==
    \/ SecretCloseCheck(t)
    \/ SecretCloseOnce(t)
    \/ SecretCloseMark(t)
    \/ SecretCloseGet(t)
    \/ SecretCloseChan(t)
    \/ SecretCloseClear(t)
    \/ SecretCloseDone(t)

\* ------------------------------------------------- fileSecret.ListenChanges

\* return nil, error
LcFail(t) ==
    Return(t, [op |-> "ListenChanges", key |-> <<>>, e |-> th[t].e, ok |-> FALSE, ch |-> 0],
           "", "")
\* return ch, nil
LcOk(t, c) ==
    Return(t, [op |-> "ListenChanges", key |-> <<>>, e |-> th[t].e, ok |-> TRUE, ch |-> c],
           "", "")

\* A caller calls ListenChanges on a secret that GetSecret returned.
ListenChangesCall(t, e) ==
    /\ At(t, "idle")
    /\ Len(chans) + Cardinality({u \in Users : th[u].op = "ListenChanges"}) < MaxChans
    /\ th' = [th EXCEPT ![t] = [Local("lc_closed", "ListenChanges") EXCEPT !.e = e]]
    /\ UNCHANGED <<isClosed, closeOnce, ctxDone, secrets, lerr,
                   ents, chans, watcher, panic, serial, made>>
    /\ Spend

\* ListenChanges without the test of fs.closed
ListenChangesClosedSkipped(t) ==
    /\ At(t, "lc_closed")
    /\ Goto(t, "lc_once")
    /\ UNCHANGED <<isClosed, closeOnce, ctxDone, secrets, lerr,
                   ents, chans, watcher, panic, serial, made, budget>>

\* if fs.closed.Get() { return nil, error }
ListenChangesClosed(t) ==
    /\ At(t, "lc_closed")
    /\ IF ents[th[t].e].closed
       THEN LcFail(t)
       ELSE Goto(t, "lc_once")
    /\ UNCHANGED <<isClosed, closeOnce, ctxDone, secrets, lerr,
                   ents, chans, watcher, panic, serial, made, budget>>

\* ListenChanges with a flag tested and set in two steps in place of the Once
ListenChangesOnceUnlatched(t) ==
    /\ At(t, "lc_once")
    /\ IF ents[th[t].e].watchOnce = "done"
       THEN Goto(t, "lc_add")
       ELSE Goto(t, "lc_watch")
    /\ UNCHANGED <<isClosed, closeOnce, ctxDone, secrets, lerr, ents,
                   chans, watcher, panic, serial, made, budget>>

\* fs.watchOnce.Do(func() {...}): entered by the first caller only; a later
\* caller skips the body and its err stays nil.
ListenChangesOnce(t) ==
    /\ At(t, "lc_once")
    /\ ents[th[t].e].watchOnce # "running"
    /\ IF ents[th[t].e].watchOnce = "done"
       THEN Goto(t, "lc_add") /\ UNCHANGED ents
       ELSE /\ ents' = [ents EXCEPT ![th[t].e].watchOnce = "running"]
            /\ Goto(t, "lc_watch")
    /\ UNCHANGED <<isClosed, closeOnce, ctxDone, secrets, lerr,
                   chans, watcher, panic, serial, made, budget>>

\* FileWatcher.Add(path) returns an error: always on a closed watcher, and
\* the watch source may refuse a path otherwise.
WatcherAddFails(refused) == watcher.closed \/ refused

\* err = w.Add(fs.path), inside the Once
ListenChangesWatch(t) ==
    /\ At(t, "lc_watch")
    /\ \E refused \in BOOLEAN :
        th' = [th EXCEPT ![t].pc = "lc_watched",
                         ![t].err = IF WatcherAddFails(refused) THEN "add" ELSE "nil"]
    /\ UNCHANGED <<isClosed, closeOnce, ctxDone, secrets, lerr, ents,
                   chans, watcher, panic, serial, made, budget>>

\* fs.watchOnce.Do returns: the Once is done; if err != nil { return nil, error }
ListenChangesWatched(t) ==
    /\ At(t, "lc_watched")
    /\ ents' = [ents EXCEPT ![th[t].e].watchOnce = "done"]
    /\ IF th[t].err # "nil"
       THEN LcFail(t)
       ELSE Goto(t, "lc_add")
    /\ UNCHANGED <<isClosed, closeOnce, ctxDone, secrets, lerr,
                   chans, watcher, panic, serial, made, budget>>

\* ch := make(chan string, 1)
NewChan(e) == [owner |-> e, buf |-> <<>>, closed |-> FALSE]

\* fs.subscribers.Add(subscriberInfo{ch: ch}); return ch, nil
ListenChangesAdd(t) ==
    /\ At(t, "lc_add")
    /\ chans' = Append(chans, NewChan(th[t].e))
    /\ ents' = [ents EXCEPT ![th[t].e].subs = Append(@, Len(chans) + 1)]
    /\ LcOk(t, Len(chans) + 1)
    /\ UNCHANGED <<isClosed, closeOnce, ctxDone, secrets, lerr,
                   watcher, panic, serial, made, budget>>

ListenChanges(t) ==
    \/ \E e \in 1..Len(ents) : ListenChangesCall(t, e)
    \/ ListenChangesClosed(t)
    \/ ListenChangesOnce(t)
    \/ ListenChangesWatch(t)
    \/ ListenChangesWatched(t)
    \/ ListenChangesAdd(t)

\* ------------------------------------------------ fileSecret.handleFileChange

\* The dispatch loop moves on to the next entity of its snapshot.
HfcReturn(t) ==
    th' = [th EXCEPT ![t].pc = "hfc_loop", ![t].e = 0, ![t].subs = <<>>,
                     ![t].active = <<>>, ![t].content = "", ![t].ret = ""]

\* content, err := fs.reader.ReadFile(fs.path); if err != nil { fs.Close(); return }
HandleRead(t) ==
    /\ At(t, "hfc_read")
    /\ \E rd \in ReadResults :
        IF rd = ReadError
        THEN th' = [th EXCEPT ![t].pc = "ec_check", ![t].content = rd,
                              ![t].ret = "hfc_done"]
        ELSE th' = [th EXCEPT ![t].pc = "hfc_cmp", ![t].content = rd]
    /\ UNCHANGED <<ents, chans, panic>>
    /\ EntityFrame

\* the return after fs.Close()
HandleClosed(t) ==
    /\ At(t, "hfc_done")
    /\ HfcReturn(t)
    /\ UNCHANGED <<ents, chans, panic>>
    /\ EntityFrame

\* handleFileChange without the comparison with the cached value
HandleCompareSkipped(t) ==
    /\ At(t, "hfc_cmp")
    /\ Goto(t, "hfc_upd")
    /\ UNCHANGED <<ents, chans, panic>>
    /\ EntityFrame

\* if newValue == fs.value.Get() { return }
HandleCompare(t) ==
    /\ At(t, "hfc_cmp")
    /\ IF th[t].content = ents[th[t].e].value
       THEN HfcReturn(t)
       ELSE Goto(t, "hfc_upd")
    /\ UNCHANGED <<ents, chans, panic>>
    /\ EntityFrame

\* handleFileChange going on to the broadcast with the cached value not
\* updated
HandleUpdateSkipped(t) ==
    /\ At(t, "hfc_upd")
    /\ Goto(t, "hfc_get")
    /\ UNCHANGED <<ents, chans, panic>>
    /\ EntityFrame

\* fs.value.Set(newValue)
HandleUpdate(t) ==
    /\ At(t, "hfc_upd")
    /\ ents' = [ents EXCEPT ![th[t].e].value = th[t].content]
    /\ Goto(t, "hfc_get")
    /\ UNCHANGED <<chans, panic>>
    /\ EntityFrame

\* subscribers := fs.subscribers.Get()
HandleGet(t) ==
    /\ At(t, "hfc_get")
    /\ th' = [th EXCEPT ![t].pc = "hfc_send", ![t].subs = ents[th[t].e].subs,
                        ![t].active = <<>>]
    /\ UNCHANGED <<ents, chans, panic>>
    /\ EntityFrame

\* the broadcast passing over a subscriber: nothing is sent to it
HandleSendDropped(t) ==
    /\ At(t, "hfc_send")
    /\ th[t].subs # <<>>
    /\ th' = [th EXCEPT ![t].subs = Tail(@), ![t].active = Append(@, Head(th[t].subs))]
    /\ UNCHANGED <<ents, chans, panic>>
    /\ EntityFrame

\* the broadcast with a plain send, which waits for room in the buffer
HandleSendBlocking(t) ==
    /\ At(t, "hfc_send")
    /\ th[t].subs # <<>>
    /\ LET c == Head(th[t].subs) IN
        IF chans[c].closed
        THEN /\ Panics(t, "send on closed channel")
             /\ UNCHANGED chans
        ELSE /\ Len(chans[c].buf) < 1
             /\ chans' = [chans EXCEPT ![c].buf = Append(@, th[t].content)]
             /\ th' = [th EXCEPT ![t].subs = Tail(@), ![t].active = Append(@, c)]
             /\ UNCHANGED panic
    /\ UNCHANGED ents
    /\ EntityFrame

\* select { case sub.ch <- newValue: keep it; default: ... }
\* A send on a closed channel panics.
HandleSend(t) ==
    /\ At(t, "hfc_send")
    /\ th[t].subs # <<>>
    /\ LET c == Head(th[t].subs) IN
        IF chans[c].closed
        THEN /\ Panics(t, "send on closed channel")
             /\ UNCHANGED chans
        ELSE IF Len(chans[c].buf) < 1
        THEN /\ chans' = [chans EXCEPT ![c].buf = Append(@, th[t].content)]
             /\ th' = [th EXCEPT ![t].subs = Tail(@), ![t].active = Append(@, c)]
             /\ UNCHANGED panic
        ELSE /\ Goto(t, "hfc_full")
             /\ UNCHANGED <<chans, panic>>
    /\ UNCHANGED ents
    /\ EntityFrame

\* the broadcast keeping a subscriber whose channel it closed
HandleDefaultKept(t) ==
    /\ At(t, "hfc_full")
    /\ LET c == Head(th[t].subs) IN
        CloseChan(t, c, [th[t] EXCEPT !.pc = "hfc_send", !.subs = Tail(@),
                                      !.active = Append(@, c)])
    /\ UNCHANGED ents
    /\ EntityFrame

\* default: close(sub.ch)
HandleDefault(t) ==
    /\ At(t, "hfc_full")
    /\ CloseChan(t, Head(th[t].subs), [th[t] EXCEPT !.pc = "hfc_send", !.subs = Tail(@)])
    /\ UNCHANGED ents
    /\ EntityFrame

\* fs.subscribers.Set(activeSubscribers)
HandleSet(t) ==
    /\ At(t, "hfc_send")
    /\ th[t].subs = <<>>
    /\ ents' = [ents EXCEPT ![th[t].e].subs = th[t].active]
    /\ HfcReturn(t)
    /\ UNCHANGED <<chans, panic>>
    /\ EntityFrame

SecretHandleFileChange(t) ==
    \/ HandleRead(t)
    \/ HandleClosed(t)
    \/ HandleCompare(t)
    \/ HandleUpdate(t)
    \/ HandleGet(t)
    \/ HandleSend(t)
    \/ HandleDefault(t)
    \/ HandleSet(t)

\* ---------------------------------------------------- fileSecretLoader.Close

LoaderFrame ==
    UNCHANGED <<ents, chans, panic, serial, made, budget>>

\* A caller calls Close() on the loader.
CloseCall(t) ==
    /\ At(t, "idle")
    /\ th' = [th EXCEPT ![t] = Local("rc_once", "Close")]
    /\ UNCHANGED <<isClosed, closeOnce, ctxDone, secrets, lerr,
                   ents, chans, watcher, panic, serial, made>>
    /\ Spend

CloseDone(t) ==
    Return(t, [op |-> "Close", key |-> <<>>, e |-> 0, ok |-> TRUE, ch |-> 0], "", "")

\* fsl.closeOnce.Do(func() {...})
CloseOnce(t) ==
    /\ At(t, "rc_once")
    /\ closeOnce # "running"
    /\ IF closeOnce = "done"
       THEN CloseDone(t) /\ UNCHANGED closeOnce
       ELSE /\ closeOnce' = "running"
            /\ Goto(t, "rc_mark")
    /\ UNCHANGED <<isClosed, ctxDone, secrets, lerr, ents, chans,
                   watcher, panic, serial, made, budget>>

\* Close() without fsl.isClosed.Set(true)
CloseMarkSkipped(t) ==
    /\ At(t, "rc_mark")
    /\ Goto(t, "rc_cancel")
    /\ UNCHANGED <<isClosed, closeOnce, ctxDone, secrets, lerr, watcher>>
    /\ LoaderFrame

\* fsl.isClosed.Set(true)
CloseMark(t) ==
    /\ At(t, "rc_mark")
    /\ isClosed' = TRUE
    /\ Goto(t, "rc_cancel")
    /\ UNCHANGED <<closeOnce, ctxDone, secrets, lerr, watcher>>
    /\ LoaderFrame

\* fsl.cancelCtxFn()
CloseCancel(t) ==
    /\ At(t, "rc_cancel")
    /\ ctxDone' = TRUE
    /\ Goto(t, "rc_copy")
    /\ UNCHANGED <<isClosed, closeOnce, secrets, lerr, watcher>>
    /\ LoaderFrame

\* fsl.secrets.CopyMap(): the entries of the map (each entity is stored under
\* its own key)
CopyMap == {secrets[k] : k \in {x \in DOMAIN secrets : secrets[x] # 0}}

\* for k, v := range fsl.secrets.CopyMap()
CloseCopy(t) ==
    /\ At(t, "rc_copy")
    /\ th' = [th EXCEPT ![t].pc = "rc_loop", ![t].snap = CopyMap]
    /\ UNCHANGED <<isClosed, closeOnce, ctxDone, secrets, lerr, watcher>>
    /\ LoaderFrame

\* v.Close(), for the entries in any order
CloseNext(t) ==
    /\ At(t, "rc_loop")
    /\ \E e \in th[t].snap :
        th' = [th EXCEPT ![t].pc = "ec_check", ![t].e = e, ![t].ret = "rc_del",
                         ![t].snap = @ \ {e}]
    /\ UNCHANGED <<isClosed, closeOnce, ctxDone, secrets, lerr, watcher>>
    /\ LoaderFrame

\* fsl.secrets.Del(k)
CloseDel(t) ==
    /\ At(t, "rc_del")
    /\ secrets' = [secrets EXCEPT ![ents[th[t].e].key] = 0]
    /\ th' = [th EXCEPT ![t].pc = "rc_loop", ![t].e = 0]
    /\ UNCHANGED <<isClosed, closeOnce, ctxDone, lerr, watcher>>
    /\ LoaderFrame

\* FileWatcher.Close(): the event and error streams end
WatcherClose == [watcher EXCEPT !.closed = TRUE, !.closes = @ + 1]

\* if err := fsl.watcher.Close(); err != nil
CloseWatcher(t) ==
    /\ At(t, "rc_loop")
    /\ th[t].snap = {}
    /\ watcher' = WatcherClose
    /\ \E fails \in BOOLEAN :
        IF fails THEN Goto(t, "rc_err") ELSE Goto(t, "rc_done")
    /\ UNCHANGED <<isClosed, closeOnce, ctxDone, secrets, lerr>>
    /\ LoaderFrame

\* fsl.setError(fmt.Errorf("failed to close watcher: %w", err))
CloseSetError(t) ==
    /\ At(t, "rc_err")
    /\ lerr' = "close"
    /\ Goto(t, "rc_done")
    /\ UNCHANGED <<isClosed, closeOnce, ctxDone, secrets, watcher>>
    /\ LoaderFrame

\* the function passed to fsl.closeOnce.Do returns or panics: the Once is
\* done either way, and Close() returns or the panic leaves it
CloseEnd(t) ==
    /\ Sched(t)
    /\ th[t].pc \in {"rc_done", "rc_panic"}
    /\ closeOnce' = "done"
    /\ IF th[t].pc = "rc_done" THEN CloseDone(t)
       ELSE th' = [th EXCEPT ![t] = Unwound(t)]
    /\ UNCHANGED <<isClosed, ctxDone, secrets, lerr, watcher>>
    /\ LoaderFrame

LoaderClose(t) ==
    \/ CloseOnce(t)
    \/ CloseMark(t)
    \/ CloseCancel(t)
    \/ CloseCopy(t)
    \/ CloseNext(t)
    \/ CloseDel(t)
    \/ CloseWatcher(t)
    \/ CloseSetError(t)
    \/ CloseEnd(t)

\* --------------------------------- fileSecretLoader.startWatching (the loop)

\* The entities the loader's handleFileChange calls for a changed path:
\* for k, fs := range fsl.secrets.CopyMap() { if strings.Contains(filePath, k) }
Matching(filePath) == {e \in CopyMap : Contains(filePath, ents[e].key)}

\* case event, isOpen := <-fsl.watcher.Events()
LoopEvent(t) ==
    /\ At(t, "select")
    /\ watcher.events # <<>>
    /\ watcher' = [watcher EXCEPT !.events = Tail(@)]
    /\ LET ev == Head(watcher.events) IN
        IF IsWriteOrCreate(ev)
        THEN th' = [th EXCEPT ![t].pc = "hfc_copy", ![t].op = "dispatch",
                              ![t].filePath = EventString(ev)]
        ELSE UNCHANGED th
    /\ UNCHANGED <<isClosed, closeOnce, ctxDone, secrets, lerr>>
    /\ LoaderFrame

\* fsl.handleFileChange(event.String()): the copy of the map it ranges over;
\* filePath serves only to choose the entries, so the goroutine keeps the
\* chosen entities and no longer the text
LoopCopy(t) ==
    /\ At(t, "hfc_copy")
    /\ th' = [th EXCEPT ![t].pc = "hfc_loop", ![t].snap = Matching(th[t].filePath),
                        ![t].filePath = <<>>]
    /\ UNCHANGED <<isClosed, closeOnce, ctxDone, secrets, lerr, watcher>>
    /\ LoaderFrame

\* fs.handleFileChange() for the next matching entity, in any order
LoopNext(t) ==
    /\ At(t, "hfc_loop")
    /\ \E e \in th[t].snap :
        th' = [th EXCEPT ![t].pc = "hfc_read", ![t].e = e, ![t].snap = @ \ {e}]
    /\ UNCHANGED <<isClosed, closeOnce, ctxDone, secrets, lerr, watcher>>
    /\ LoaderFrame

\* the loader's handleFileChange returns: back to the select
LoopBack(t) ==
    /\ At(t, "hfc_loop")
    /\ th[t].snap = {}
    /\ th' = [th EXCEPT ![t] = Local("select", "none")]
    /\ UNCHANGED <<isClosed, closeOnce, ctxDone, secrets, lerr, watcher>>
    /\ LoaderFrame

\* The goroutine returns; its deferred fsl.Close() runs.
Deferred(t) == th' = [th EXCEPT ![t] = Local("rc_once", "Close")]

\* if !isOpen { return } on the event stream
LoopEventsClosed(t) ==
    /\ At(t, "select")
    /\ watcher.events = <<>> /\ watcher.closed
    /\ Deferred(t)
    /\ UNCHANGED <<isClosed, closeOnce, ctxDone, secrets, lerr, watcher>>
    /\ LoaderFrame

\* case errW, isOpen := <-fsl.watcher.Errors()
LoopError(t) ==
    /\ At(t, "select")
    /\ watcher.errors # <<>>
    /\ watcher' = [watcher EXCEPT !.errors = Tail(@)]
    /\ th' = [th EXCEPT ![t].pc = "loop_err", ![t].err = Head(watcher.errors)]
    /\ UNCHANGED <<isClosed, closeOnce, ctxDone, secrets, lerr>>
    /\ LoaderFrame

\* the loop recording the error and going on with its select
LoopErrorContinues(t) ==
    /\ At(t, "loop_err")
    /\ lerr' = th[t].err
    /\ th' = [th EXCEPT ![t] = Local("select", "none")]
    /\ UNCHANGED <<isClosed, closeOnce, ctxDone, secrets, watcher>>
    /\ LoaderFrame

\* fsl.setError(errW); return
LoopSetError(t) ==
    /\ At(t, "loop_err")
    /\ lerr' = th[t].err
    /\ Deferred(t)
    /\ UNCHANGED <<isClosed, closeOnce, ctxDone, secrets, watcher>>
    /\ LoaderFrame

\* if !isOpen { return } on the error stream
LoopErrorsClosed(t) ==
    /\ At(t, "select")
    /\ watcher.errors = <<>> /\ watcher.closed
    /\ Deferred(t)
    /\ UNCHANGED <<isClosed, closeOnce, ctxDone, secrets, lerr, watcher>>
    /\ LoaderFrame

\* the loop returning on cancellation with no deferred Close()
LoopCancelledBare(t) ==
    /\ At(t, "select")
    /\ ctxDone
    /\ th' = [th EXCEPT ![t] = Local("exited", "none")]
    /\ UNCHANGED <<isClosed, closeOnce, ctxDone, secrets, lerr, watcher>>
    /\ LoaderFrame

\* case <-fsl.ctx.Done(): return
LoopCancelled(t) ==
    /\ At(t, "select")
    /\ ctxDone
    /\ Deferred(t)
    /\ UNCHANGED <<isClosed, closeOnce, ctxDone, secrets, lerr, watcher>>
    /\ LoaderFrame

\* fileSecretLoader.Err(): return fsl.err.Get()
LoaderErr == lerr

Loop(t) ==
    \/ LoopEvent(t)
    \/ LoopCopy(t)
    \/ LoopNext(t)
    \/ LoopBack(t)
    \/ LoopEventsClosed(t)
    \/ LoopError(t)
    \/ LoopSetError(t)
    \/ LoopErrorsClosed(t)
    \/ LoopCancelled(t)

\* ------------------------------------------------------------- environment

EnvFrame ==
    UNCHANGED <<isClosed, closeOnce, ctxDone, secrets, lerr, ents, th,
                panic, serial, made, budget>>

\* The watch source reports an operation on a file under the base path.
EmitEvent(k, op) ==
    /\ EnvSched
    /\ ~watcher.closed
    /\ Len(watcher.events) < MaxQueue
    /\ watcher' = [watcher EXCEPT !.events = Append(@, [name |-> Join(BasePath, k), op |-> op])]
    /\ UNCHANGED chans
    /\ UNCHANGED <<isClosed, closeOnce, ctxDone, secrets, lerr, ents, th,
                   panic, serial, made>>
    /\ Spend

\* The watch source reports an error.
EmitError ==
    /\ EnvSched
    /\ ~watcher.closed
    /\ Len(watcher.errors) < MaxQueue
    /\ watcher' = [watcher EXCEPT !.errors = Append(@, "watch")]
    /\ UNCHANGED chans
    /\ UNCHANGED <<isClosed, closeOnce, ctxDone, secrets, lerr, ents, th,
                   panic, serial, made>>
    /\ Spend

\* The context passed to NewFileSecretLoader is cancelled: the registry's
\* context, derived from it, is done.
CancelParent ==
    /\ EnvSched
    /\ ~ctxDone
    /\ ctxDone' = TRUE
    /\ UNCHANGED <<chans, watcher>>
    /\ UNCHANGED <<isClosed, closeOnce, secrets, lerr, ents, th, panic, serial, made>>
    /\ Spend

\* The holder of the watch source closes it: the event and error streams end.
CloseSource ==
    /\ EnvSched
    /\ ~watcher.closed
    /\ watcher' = [watcher EXCEPT !.closed = TRUE]
    /\ UNCHANGED chans
    /\ UNCHANGED <<isClosed, closeOnce, ctxDone, secrets, lerr, ents, th,
                   panic, serial, made>>
    /\ Spend

\* A consumer receives the value its channel holds.
Receive(c) ==
    /\ EnvSched
    /\ chans[c].buf # <<>>
    /\ chans' = [chans EXCEPT ![c].buf = Tail(@)]
    /\ UNCHANGED watcher
    /\ EnvFrame

Env ==
    \/ \E k \in Keys, op \in Ops : EmitEvent(k, op)
    \/ EmitError
    \/ \E c \in 1..Len(chans) : Receive(c)

\* The loop's inputs end from outside the registry.
EnvEnd ==
    \/ CancelParent
    \/ CloseSource

\* ---------------------------------------------------------- specifications

\* The steps of the registry's threads and of a watch source that stays live.
Live ==
    \/ \E t \in Users : GetSecret(t)
    \/ \E t \in Users : ListenChanges(t)
    \/ \E t \in Users : CloseCall(t)
    \/ \E t \in Users : Resume(t)
    \/ \E t \in Threads : LoaderClose(t)
    \/ \E t \in Threads : SecretClose(t)
    \/ Loop(Dispatcher)
    \/ SecretHandleFileChange(Dispatcher)
    \/ Env

Next ==
    \/ Live
    \/ EnvEnd

Unlimited == [limited |-> FALSE, left |-> 0]
Limited(n) == [limited |-> TRUE, left |-> n]

Init == InitState /\ serial = TRUE /\ budget = Unlimited
ConcInit == InitState /\ serial = FALSE /\ budget = Limited(MaxCalls)
FairInit == InitState /\ serial = TRUE /\ budget = Limited(MaxFairCalls)
\* The constructor with each outcome of the factory and of Add(basePath).
NewInit ==
    /\ \E factoryFails \in BOOLEAN, addFails \in BOOLEAN :
            Constructed(factoryFails, addFails)
    /\ serial = TRUE /\ budget = Limited(MaxFairCalls)

Spec == Init /\ [][Next]_vars

\* The dispatch goroutine is scheduled as long as it can take a step: the Go
\* runtime runs every runnable goroutine.  So is a caller inside Close(), and a
\* call that has returned is over: neither holds the dispatch goroutine up.
Fairness ==
    /\ WF_vars(\E t \in Users : LoaderClose(t) \/ SecretClose(t))
    /\ WF_vars(\E t \in Users : Resume(t))
    /\ WF_vars(Loop(Dispatcher))
    /\ WF_vars(SecretHandleFileChange(Dispatcher))
    /\ WF_vars(SecretClose(Dispatcher))
    /\ WF_vars(LoaderClose(Dispatcher))
FairSpec == FairInit /\ [][Next]_vars /\ Fairness
\* A registry that may also hold the secret of key "E".
KeyInit ==
    /\ made = [loader |-> TRUE, err |-> "nil"]
    /\ isClosed = FALSE
    /\ closeOnce = "idle"
    /\ ctxDone = FALSE
    /\ secrets = [k \in Keys \cup {KeyE} |-> 0]
    /\ lerr = "nil"
    /\ ents = <<>>
    /\ chans = <<>>
    /\ watcher = [closed |-> FALSE, events |-> <<>>, errors |-> <<>>, closes |-> 0]
    /\ th = [t \in Threads |-> Local(Home(t), "none")]
    /\ panic = "none"
    /\ serial = TRUE /\ budget = Limited(MaxFairCalls)
KeyNext ==
    \/ Next
    \/ \E t \in Users : GetSecretCall(t, KeyE)
KeySpec == KeyInit /\ [][KeyNext]_vars

\* The calls made on whatever the constructor returned.
NewSpec == NewInit /\ [][Next]_vars

\* Runs of one caller whose steps interleave with the dispatch goroutine's,
\* long enough for a channel to fill: the caller loads the key "a" and the
\* watch source reports writes of its file.
SoloInit == InitState /\ serial = FALSE /\ budget = Limited(MaxSoloCalls)
SoloLive ==
    \/ GetSecretCall("u1", KeyA)
    \/ GetSecretBody("u1")
    \/ ListenChanges("u1")
    \/ CloseCall("u1")
    \/ Resume("u1")
    \/ \E t \in {"u1", Dispatcher} : LoaderClose(t)
    \/ \E t \in {"u1", Dispatcher} : SecretClose(t)
    \/ Loop(Dispatcher)
    \/ SecretHandleFileChange(Dispatcher)
    \/ \E op \in {"WRITE", "REMOVE"} : EmitEvent(KeyA, op)
    \/ EmitError
    \/ \E c \in 1..Len(chans) : Receive(c)
    \/ \E t \in {"u1", Dispatcher} : PanicOut(t)
SoloSpec == SoloInit /\ [][SoloLive]_vars

\* The interleaved runs keep the parent context and the watch source live: the
\* loop ends there by an error of the watch source or a caller's Close().
\* Callers load the key "a", and the watch source reports writes of its file
\* and errors.
ConcLive ==
    \/ \E t \in Users : GetSecretCall(t, KeyA)
    \/ \E t \in Users : GetSecretBody(t)
    \/ \E t \in Users : ListenChanges(t)
    \/ \E t \in Users : CloseCall(t)
    \/ \E t \in Users : Resume(t)
    \/ \E t \in Threads : LoaderClose(t)
    \/ \E t \in Threads : SecretClose(t)
    \/ Loop(Dispatcher)
    \/ SecretHandleFileChange(Dispatcher)
    \/ EmitEvent(KeyA, "WRITE")
    \/ EmitError
    \/ \E c \in 1..Len(chans) : Receive(c)
    \/ \E t \in Threads : PanicOut(t)
ConcSpec == ConcInit /\ [][ConcLive]_vars

\* ------------------------------------------------------------------ claims

\* The callers, a registry Close() call of theirs has returned, and what they
\* hold.
CloseReturned == closeOnce = "done"
GetSecretReturned(t) == th[t].pc = "returned" /\ th[t].r.op = "GetSecret"
ListenChangesReturned(t) == th[t].pc = "returned" /\ th[t].r.op = "ListenChanges"

\* C1: after a registry Close() call has returned, every GetSecret call made
\* afterwards fails and returns no secret, also for a key that had been
\* loaded, and every channel ListenChanges returned before is closed.
C1_ClosedRegistry ==
    CloseReturned =>
        /\ isClosed
        /\ \A t \in Users : GetSecretReturned(t) => ~th[t].r.ok /\ th[t].r.e = 0
        /\ \A c \in 1..Len(chans) : chans[c].closed

\* C1 happens: Close() has returned, a GetSecret for a key loaded before it
\* has failed, and a channel ListenChanges had returned is closed.
C1_Witness ==
    /\ CloseReturned
    /\ \E t \in Users :
        /\ GetSecretReturned(t) /\ ~th[t].r.ok
        /\ \E e \in 1..Len(ents) : ents[e].key = th[t].r.key
    /\ \E c \in 1..Len(chans) : chans[c].closed

Range(seq) == {seq[i] : i \in 1..Len(seq)}

\* The dispatch goroutine has re-read the file of the entity it handles and
\* the content, v, differs from the cached value; c is a subscriber of that
\* entity and its buffer is empty.
Owed(c, v) ==
    /\ th[Dispatcher].pc = "hfc_cmp"
    /\ th[Dispatcher].content = v
    /\ v # ents[th[Dispatcher].e].value
    /\ c \in Range(ents[th[Dispatcher].e].subs)
    /\ chans[c].buf = <<>>

\* A step of the broadcast at subscriber c, whose buffer is empty, puts the
\* new value into it.
DeliversNext(c) ==
    (/\ th[Dispatcher].pc = "hfc_send"
     /\ th[Dispatcher].subs # <<>>
     /\ Head(th[Dispatcher].subs) = c
     /\ chans[c].buf = <<>>
     /\ th'[Dispatcher] # th[Dispatcher])
    => chans'[c].buf = <<th[Dispatcher].content>>

\* A value enters channel c only as the new value of a broadcast, into an
\* empty buffer, and the broadcast comes to c once.
DeliveredOnce(c) ==
    Len(chans'[c].buf) > Len(chans[c].buf)
    => /\ th[Dispatcher].pc = "hfc_send"
       /\ th[Dispatcher].subs # <<>>
       /\ Head(th[Dispatcher].subs) = c
       /\ chans[c].buf = <<>>
       /\ chans'[c].buf = <<th[Dispatcher].content>>
       /\ c \notin Range(th[Dispatcher].active)
       /\ c \notin Range(Tail(th[Dispatcher].subs))

\* C2: when the content of a secret's file has changed and a Write or Create
\* event for it is dispatched, every subscriber channel of the secret whose
\* buffer is empty receives the new content: it is delivered eventually, it
\* is not dropped and it is delivered once.
C2_ChangeDelivered ==
    /\ \A c \in 1..MaxChans, v \in Contents :
        Owed(c, v) ~> (c <= Len(chans) /\ chans[c].buf = <<v>>)
    /\ [][\A c \in 1..Len(chans) : DeliversNext(c) /\ DeliveredOnce(c)]_vars

\* C2 happens: a broadcast of a changed content has delivered it to two
\* subscribers.
C2_Witness ==
    /\ th[Dispatcher].pc = "hfc_send"
    /\ th[Dispatcher].subs = <<>>
    /\ Len(th[Dispatcher].active) = 2
    /\ \A c \in Range(th[Dispatcher].active) : chans[c].buf = <<th[Dispatcher].content>>
    /\ ents[th[Dispatcher].e].value = th[Dispatcher].content

\* The dispatch goroutine's locals.
Disp == th[Dispatcher]

\* The dispatch goroutine has re-read the file of the entity it handles and
\* the content equals the cached value.
SameContent == Disp.pc = "hfc_cmp" /\ Disp.content = ents[Disp.e].value

\* C3: when handleFileChange re-reads a file whose content equals the cached
\* value, it returns: nothing is sent on a channel and the value, the
\* subscriber list and the closed flag of every entity stay as they are.
C3_IdenticalContent ==
    [][/\ (Disp.pc = "hfc_read" /\ Disp'.pc = "hfc_cmp")
            => ents' = ents /\ chans' = chans
       /\ SameContent => ents' = ents /\ chans' = chans /\ Disp'.pc = "hfc_loop"]_vars

\* C3 happens: the entity of key "a", which has a subscriber, is handled
\* because of an event for the file of key "ab", and its file's content is its
\* cached value.
C3_Witness ==
    /\ SameContent
    /\ ents[Disp.e].key = KeyA
    /\ ents[Disp.e].subs # <<>>
    /\ \E e \in Disp.snap : ents[e].key = KeyAB

\* The subscribers in list subs whose channel is open.
Open(subs) == SelectSeq(subs, LAMBDA c : ~chans[c].closed)

\* C4: in a broadcast, a subscriber whose channel still holds a value is
\* closed and dropped from the subscriber list; each other subscriber
\* receives the new value, and they stay in the list in their order.
C4_Backpressure ==
    [][/\ (Disp.pc = "hfc_send" /\ Disp' # Disp) =>
            IF Disp.subs # <<>>
            THEN LET c == Head(Disp.subs) IN
                  /\ IF chans[c].buf # <<>>
                     THEN /\ Disp' = [Disp EXCEPT !.pc = "hfc_full"]
                          /\ chans'[c] = chans[c]
                     ELSE /\ ~chans'[c].closed
                          /\ chans'[c].buf = <<Disp.content>>
                          /\ Disp'.active = Append(Disp.active, c)
                          /\ Disp'.subs = Tail(Disp.subs)
                  /\ \A o \in 1..Len(chans) : o # c => chans'[o] = chans[o]
            ELSE /\ ents'[Disp.e].subs = Open(ents[Disp.e].subs)
                 /\ \A c \in Range(ents'[Disp.e].subs) : chans[c].buf = <<Disp.content>>
                 /\ chans' = chans
       /\ (Disp.pc = "hfc_full" /\ Disp' # Disp) =>
            LET c == Head(Disp.subs) IN
              /\ chans'[c].closed
              /\ chans'[c].buf = chans[c].buf
              /\ Disp'.pc = "hfc_send"
              /\ Disp'.active = Disp.active
              /\ Disp'.subs = Tail(Disp.subs)
              /\ \A o \in 1..Len(chans) : o # c => chans'[o] = chans[o]]_vars

\* C4 happens: a broadcast has closed a subscriber that held the previous
\* value and has delivered the new value to another subscriber.
C4_Witness ==
    /\ Disp.pc = "hfc_send"
    /\ Disp.subs = <<>>
    /\ \E c \in Range(ents[Disp.e].subs) :
        /\ chans[c].closed
        /\ chans[c].buf # <<>> /\ chans[c].buf # <<Disp.content>>
    /\ \E c \in Range(Disp.active) : chans[c].buf = <<Disp.content>>

\* Thread t is in a GetSecret call at pc and takes a step.
GetSecretStep(t, pc) == th[t].pc = pc /\ th'[t] # th[t]

\* C5: GetSecret(k) for a non-empty key k the open registry has not loaded,
\* whose file exists and is read with content v, succeeds: it returns an
\* entity whose value is v and which is registered under k.
C5_Load ==
    [][\A t \in Users :
        /\ (GetSecretStep(t, "gs_closed") /\ ~isClosed /\ th[t].key # EmptyKey)
            => th'[t].pc = "gs_lookup"
        /\ (GetSecretStep(t, "gs_lookup") /\ secrets[th[t].key] = 0)
            => th'[t].pc = "gs_stat"
        /\ (GetSecretStep(t, "gs_stat") /\ th'[t].stat = "ok")
            => th'[t].pc = "gs_read"
        /\ (GetSecretStep(t, "gs_read") /\ th'[t].content \in Contents)
            => th'[t].pc = "gs_set"
        /\ GetSecretStep(t, "gs_set")
            => /\ GetSecretReturned(t)'
               /\ th'[t].r.ok
               /\ th'[t].r.e \in 1..Len(ents')
               /\ ents'[th'[t].r.e].value = th[t].content
               /\ ~ents'[th'[t].r.e].closed
               /\ secrets'[th[t].key] = th'[t].r.e]_vars

\* C5 happens: a GetSecret call that read its file has returned the entity
\* registered under its key, with the content read as its value.
C5_Witness ==
    \E t \in Users :
        /\ GetSecretReturned(t) /\ th[t].r.ok
        /\ th[t].stat = "ok" /\ th[t].content \in Contents
        /\ ents[th[t].r.e].value = th[t].content
        /\ secrets[th[t].r.key] = th[t].r.e

\* What a successful GetSecret call of t has returned is the entity
\* registered under its key.
ReturnsRegistered(t) ==
    (GetSecretReturned(t) /\ th[t].r.ok) => secrets[th[t].r.key] = th[t].r.e

\* C6: on an open registry GetSecret returns, for a key it has loaded, the
\* entity it returned before: the entry of a key stays until Close deletes
\* it, and a call that finds the entry returns that entity, reads no file
\* and changes no entity.
C6_SameEntity ==
    [][/\ \A k \in Keys :
            (secrets[k] # 0 /\ secrets'[k] # secrets[k]) => (secrets'[k] = 0 /\ isClosed)
       /\ \A t \in Users :
            /\ ReturnsRegistered(t)'
            /\ (GetSecretStep(t, "gs_lookup") /\ secrets[th[t].key] # 0)
                => /\ GetSecretReturned(t)'
                   /\ th'[t].r.ok
                   /\ th'[t].r.e = secrets[th[t].key]
                   /\ th'[t].stat = "" /\ th'[t].content = ""
                   /\ ents' = ents]_vars

\* C6 happens: a GetSecret call on the open registry has returned the entity
\* an earlier call loaded, without a file access.
C6_Witness ==
    \E t \in Users :
        /\ GetSecretReturned(t) /\ th[t].r.ok
        /\ th[t].stat = "" /\ th[t].content = ""
        /\ secrets[th[t].r.key] = th[t].r.e
        /\ ~isClosed

\* C7: two GetSecret calls for the same key that run concurrently and both
\* succeed return the same entity, and the entity a caller holds is in the
\* registry map as long as the registry is open.
C7_OneEntityPerKey ==
    \A t \in Users, u \in Users :
        (/\ GetSecretReturned(t) /\ th[t].r.ok
         /\ GetSecretReturned(u) /\ th[u].r.ok
         /\ th[t].r.key = th[u].r.key
         /\ ~isClosed)
        => /\ th[t].r.e = th[u].r.e
           /\ secrets[th[t].r.key] = th[t].r.e

\* C8: ListenChanges on an entity whose closed flag is set returns an error
\* and no channel; the subscriber lists, the channels and the watch source
\* stay as they are.
C8_ListenOnClosed ==
    [][\A t \in Users :
        (th[t].pc = "lc_closed" /\ th'[t] # th[t] /\ ents[th[t].e].closed)
        => /\ ListenChangesReturned(t)'
           /\ ~th'[t].r.ok
           /\ th'[t].r.ch = 0
           /\ ents' = ents
           /\ chans' = chans
           /\ watcher' = watcher]_vars

\* C8 happens: ListenChanges has failed on a closed entity whose path was
\* never given to the watch source.
C8_Witness ==
    \E t \in Users :
        /\ ListenChangesReturned(t) /\ ~th[t].r.ok /\ th[t].r.ch = 0
        /\ ents[th[t].r.e].closed
        /\ ents[th[t].r.e].watchOnce = "idle"

\* The GetSecret call of t has returned an error and no secret.
Failed(t) == GetSecretReturned(t) /\ ~th[t].r.ok /\ th[t].r.e = 0

\* C9: GetSecret fails, returning no secret, on a closed registry, for the
\* empty key, for a file that does not exist and for a file whose read fails;
\* the failing call leaves the map, the closed flag and the error of the
\* registry as they are.
C9_LookupErrors ==
    [][\A t \in Users :
        /\ (GetSecretStep(t, "gs_closed") /\ (isClosed \/ th[t].key = EmptyKey))
            => Failed(t)'
        /\ (GetSecretStep(t, "gs_stat") /\ th'[t].stat = NoFile) => Failed(t)'
        /\ (GetSecretStep(t, "gs_read") /\ th'[t].content = ReadError) => Failed(t)'
        /\ (\E pc \in {"gs_closed", "gs_lookup", "gs_stat", "gs_read"} : GetSecretStep(t, pc))
            => /\ secrets' = secrets
               /\ isClosed' = isClosed
               /\ lerr' = lerr
               /\ ents' = ents
        /\ (Failed(t)' /\ ~Failed(t))
            => secrets' = secrets /\ isClosed' = isClosed /\ lerr' = lerr]_vars

\* C9 happens: on the open registry, which holds a secret, a GetSecret call
\* for a file that does not exist has failed.
C9_Witness ==
    \E t \in Users :
        /\ Failed(t)
        /\ th[t].stat = NoFile
        /\ ~isClosed /\ lerr = "nil"
        /\ \E k \in Keys : secrets[k] # 0

\* The dispatch goroutine is in the fs.Close() that handleFileChange calls
\* when its re-read fails, or at the return that follows it.
Failing == Disp.ret = "hfc_done"

\* C10: when the re-read of handleFileChange fails, the entity is closed and
\* the channels of its subscribers are closed with no value sent; the other
\* entities and their channels, and the registry, stay as they are.
C10_RereadFailure ==
    [][/\ (Disp.pc = "hfc_read" /\ Disp'.content = ReadError)
            => Failing' /\ Disp'.pc = "ec_check" /\ ents' = ents /\ chans' = chans
       /\ (Failing /\ Disp' # Disp)
            => /\ Len(ents') = Len(ents) /\ Len(chans') = Len(chans)
               /\ \A e \in 1..Len(ents) : e # Disp.e => ents'[e] = ents[e]
               /\ \A c \in 1..Len(chans) :
                    /\ chans'[c].buf = chans[c].buf
                    /\ chans[c].owner # Disp.e => chans'[c] = chans[c]
               /\ isClosed' = isClosed /\ closeOnce' = closeOnce
               /\ secrets' = secrets /\ lerr' = lerr
               /\ Disp'.pc = "hfc_done"
                    => /\ ents'[Disp.e].closed
                       /\ ents'[Disp.e].subs = <<>>
                       /\ \A c \in 1..Len(chans) :
                            chans[c].owner = Disp.e => chans'[c].closed]_vars

\* C10 happens: a failed re-read has closed an entity and its subscriber's
\* empty channel, while another entity and its channel are open, and so is
\* the registry.
C10_Witness ==
    /\ Disp.pc = "hfc_done"
    /\ ents[Disp.e].closed
    /\ \E c \in 1..Len(chans) :
        chans[c].owner = Disp.e /\ chans[c].closed /\ chans[c].buf = <<>>
    /\ \E c \in 1..Len(chans) :
        /\ chans[c].owner # Disp.e /\ ~chans[c].closed
        /\ ~ents[chans[c].owner].closed
    /\ ~isClosed

\* C11: when the re-read of handleFileChange has failed for an entity, the
\* entity's Err() returns an error.
C11_ErrorRecorded ==
    Disp.pc = "hfc_done" => SecretErr(Disp.e) # "nil"

\* The registry is closed and everything it made is torn down.
TornDown ==
    /\ isClosed /\ closeOnce = "done"
    /\ watcher.closed
    /\ \A e \in 1..Len(ents) : ents[e].closed
    /\ \A c \in 1..Len(chans) : chans[c].closed

\* The dispatch loop has ended: its goroutine is leaving the loop with a
\* watch error, runs the deferred Close() or has returned.
LoopEnded == Disp.op = "Close" \/ Disp.pc \in {"loop_err", "exited", "panicking", "fatal"}

\* C12: an error taken from the watch source's error stream becomes the
\* registry's error and ends the dispatch loop, which takes no further
\* event; the registry's error stays set, and the registry ends up closed
\* with every entity, every subscriber channel and the watch source closed.
C12_WatchError ==
    /\ [][/\ Len(watcher'.errors) < Len(watcher.errors)
               => /\ Disp.pc = "select"
                  /\ Disp'.pc = "loop_err" /\ Disp'.err = Head(watcher.errors)
          /\ (Disp.pc = "loop_err" /\ Disp' # Disp)
               => /\ LoaderErr' = Disp.err
                  /\ Disp'.op = "Close"
          /\ LoopEnded
               => /\ LoopEnded'
                  /\ Len(watcher'.events) >= Len(watcher.events)
          /\ LoaderErr # "nil" => LoaderErr' # "nil"]_vars
    /\ (LoaderErr = "watch") ~> TornDown

\* C12 happens: after a watch error the dispatch goroutine has returned, the
\* registry holds the error and is closed with its entity and the entity's
\* channel.
C12_Witness ==
    /\ LoaderErr = "watch"
    /\ Disp.pc = "exited"
    /\ TornDown
    /\ Len(ents) > 0 /\ Len(chans) > 0

\* Thread t runs the body of the registry's Close().
InBody(t) == th[t].op = "Close" /\ th[t].pc \notin {"rc_once", "returned", "panicking", "fatal"}

\* C13: the body of the registry's Close() runs once, whoever calls Close()
\* and however often: one thread at a time is in it and it is never entered
\* again, the watch source is closed once, the body calls Close() on an
\* entity of the map once, and a call that comes after the body has run
\* returns without changing anything.
C13_CloseOnce ==
    [][/\ Cardinality({t \in Threads : InBody(t)'}) <= 1
       /\ (closeOnce' = "running") <=> (\E t \in Threads : InBody(t)')
       /\ closeOnce # "idle" => closeOnce' # "idle"
       /\ closeOnce = "done" => closeOnce' = "done"
       /\ watcher'.closes <= 1
       /\ closeOnce' = "done" => watcher'.closes = 1
       /\ watcher'.closes # watcher.closes
            => \E t \in Threads : InBody(t) /\ th[t].pc = "rc_loop" /\ th'[t] # th[t]
       /\ \A t \in Threads :
            /\ (th[t].pc = "rc_loop" /\ th'[t].pc = "ec_check")
                => /\ th'[t].e \in th[t].snap
                   /\ th'[t].snap = th[t].snap \ {th'[t].e}
            /\ (th[t].pc = "rc_once" /\ closeOnce = "done" /\ th'[t] # th[t])
                => /\ th'[t].pc \in {"returned", "exited", "panicking"}
                   /\ UNCHANGED <<isClosed, closeOnce, ctxDone, secrets, lerr,
                                  ents, chans, watcher, panic>>]_vars

\* Thread t is in fs.Close() of entity e, and in its body.
InSecretClose(t, e) ==
    th[t].e = e /\ th[t].pc \in {"ec_check", "ec_once", "ec_mark", "ec_get", "ec_close", "ec_done", "ec_panic"}
InSecretBody(t, e) ==
    th[t].e = e /\ th[t].pc \in {"ec_mark", "ec_get", "ec_close", "ec_done", "ec_panic"}

NoDuplicates(seq) == Cardinality(Range(seq)) = Len(seq)

\* C14: the body of an entity's Close() runs once, whoever calls Close() and
\* however often; it sets the closed flag, closes each channel of the
\* subscriber list it reads, in which no channel occurs twice, and leaves the
\* list empty.  A call on a closed entity returns without changing anything,
\* and no step of Close() touches the watch source, the registry map or the
\* registry's closed flag.
C14_SecretClose ==
    [][/\ \A e \in 1..Len(ents') :
            /\ Cardinality({t \in Threads : InSecretBody(t, e)'}) <= 1
            /\ (ents'[e].closeOnce = "running") <=> (\E t \in Threads : InSecretBody(t, e)')
            /\ NoDuplicates(ents'[e].subs)
       /\ \A e \in 1..Len(ents) :
            /\ ents[e].closeOnce # "idle" => ents'[e].closeOnce # "idle"
            /\ ents[e].closeOnce = "done" => ents'[e].closeOnce = "done"
            /\ ents[e].closed => ents'[e].closed
       /\ \A t \in Threads :
            LET e == th[t].e
                pc == th[t].pc IN
            (InSecretClose(t, e) /\ th'[t] # th[t])
            => /\ watcher' = watcher /\ secrets' = secrets /\ isClosed' = isClosed
               /\ ((pc = "ec_check" /\ ents[e].closed) \/
                   (pc = "ec_once" /\ ents[e].closeOnce = "done"))
                    => /\ th'[t].pc = th[t].ret
                       /\ ents' = ents /\ chans' = chans /\ panic' = panic
               /\ pc = "ec_mark" => ents'[e].closed
               /\ pc = "ec_get"
                    => /\ th'[t].subs = ents[e].subs
                       /\ ents' = ents /\ chans' = chans
               /\ (pc = "ec_close" /\ th[t].subs # <<>>)
                    => /\ chans'[Head(th[t].subs)].closed
                       /\ th'[t].subs = Tail(th[t].subs)
                       /\ \A c \in 1..Len(chans) :
                            c # Head(th[t].subs) => chans'[c] = chans[c]
                       /\ ents' = ents
               /\ (pc = "ec_close" /\ th[t].subs = <<>>)
                    => /\ ents'[e].closed /\ ents'[e].subs = <<>>
                       /\ th'[t].pc = "ec_done"
                       /\ chans' = chans
               /\ pc = "ec_done"
                    => /\ ents'[e] = [ents[e] EXCEPT !.closeOnce = "done"]
                       /\ th'[t].pc = th[t].ret
                       /\ chans' = chans]_vars

\* C15: once an entity's closed flag is true, no step adds a channel to its
\* subscriber list.
C15_NoSubscriberAfterClose ==
    [][\A e \in 1..Len(ents) :
         ents[e].closed => Range(ents'[e].subs) \subseteq Range(ents[e].subs)]_vars

\* C16: once an entity's closed flag is true, no step changes its cached
\* value.
C16_ValueFrozen ==
    [][\A e \in 1..Len(ents) :
         ents[e].closed => ents'[e].value = ents[e].value]_vars

\* C17: once the registry's Close() has returned, the map is empty and every
\* entity a GetSecret call has returned is closed.
C17_ClosedRegistryHoldsNothing ==
    CloseReturned
    => /\ \A k \in Keys : secrets[k] = 0
       /\ \A t \in Threads :
            (GetSecretReturned(t) /\ th[t].r.ok) => ents[th[t].r.e].closed

\* C18: the registry's closure is atomic for an observer; in particular, once
\* the registry's closed flag is true no step puts a value on a subscriber
\* channel.
C18_NoDeliveryAfterClosed ==
    [][isClosed => \A c \in 1..Len(chans) : Len(chans'[c].buf) <= Len(chans[c].buf)]_vars

\* The ListenChanges call of thread t has returned an error from an entity
\* that is not closed: the error is that of the watch registration.
RegistrationFailed(t) ==
    ListenChangesReturned(t) /\ ~th[t].r.ok /\ ~ents[th[t].r.e].closed

\* C19: when the watch registration of an entity's first ListenChanges call
\* has failed, the call returns no channel and no channel of the entity ever
\* holds a value.
C19_NeverNotifies ==
    \A t \in Threads :
        RegistrationFailed(t)
        => /\ th[t].r.ch = 0
           /\ \A c \in 1..Len(chans) :
                chans[c].owner = th[t].r.e => chans[c].buf = <<>>

\* Thread t is about to call the watch source's Add with the path of entity e.
AtWatcherAdd(t, e) == th[t].op = "ListenChanges" /\ th[t].pc = "lc_watch" /\ th[t].e = e

\* Thread t is in the function passed to the watchOnce of entity e.
InWatchOnce(t, e) ==
    th[t].op = "ListenChanges" /\ th[t].pc \in {"lc_watch", "lc_watched"} /\ th[t].e = e

\* C20: the watch source's Add is called with an entity's path by the one
\* thread the entity's Once has admitted, from inside ListenChanges; the call
\* spends the Once for good, and an entity is created with its Once unspent,
\* so that Add is called at most once per entity and never before the first
\* ListenChanges.
C20_WatchOnce ==
    [][/\ \A e \in 1..Len(ents') :
            /\ Cardinality({t \in Threads : InWatchOnce(t, e)'}) <= 1
            /\ (ents'[e].watchOnce = "running") <=> (\E t \in Threads : InWatchOnce(t, e)')
            /\ e > Len(ents) => ents'[e].watchOnce = "idle"
       /\ \A e \in 1..Len(ents) :
            /\ ents[e].watchOnce = "done" => ents'[e].watchOnce = "done"
            /\ ents[e].watchOnce = "running" => ents'[e].watchOnce # "idle"
            /\ ents'[e].watchOnce # ents[e].watchOnce
                 => \E t \in Threads :
                        /\ th[t].op = "ListenChanges" /\ th[t].e = e
                        /\ th'[t] # th[t]
                        /\ \A u \in Threads \ {t} : th'[u] = th[u]
       /\ \A t \in Threads, e \in 1..Len(ents) :
            /\ AtWatcherAdd(t, e)' => (AtWatcherAdd(t, e) \/ ents[e].watchOnce = "idle")
            /\ (AtWatcherAdd(t, e) /\ th'[t] # th[t])
                => /\ th'[t].pc = "lc_watched" /\ th'[t].e = e
                   /\ ents' = ents
            /\ (th[t].pc = "lc_watched" /\ th[t].e = e /\ th'[t] # th[t])
                => ents'[e] = [ents[e] EXCEPT !.watchOnce = "done"]]_vars

\* C20 happens: both callers have called ListenChanges on the same entity,
\* one is past the Once and the other has its channel.
C20_Witness ==
    \E e \in 1..Len(ents) :
        /\ ents[e].watchOnce = "done"
        /\ \E t \in Users : th[t].pc = "lc_add" /\ th[t].e = e
        /\ \E t \in Users : ListenChangesReturned(t) /\ th[t].r.ok /\ th[t].r.e = e

\* The dispatch goroutine is in the broadcast of entity e.
Broadcasting(e) == Disp.pc \in {"hfc_get", "hfc_send", "hfc_full"} /\ Disp.e = e

\* Outside a broadcast, a channel of an entity's subscriber list holds nothing
\* or the entity's latest broadcast value: no subscriber is behind another.
UpToDate ==
    \A e \in 1..Len(ents) :
        ~Broadcasting(e)
        => \A c \in Range(ents[e].subs) : chans[c].buf \in {<<>>, <<ents[e].value>>}

\* C21: a broadcast starts exactly when the cached value changes, so that
\* consecutive broadcast values differ; a value is put on a channel only by
\* the broadcast, and it is the value just cached; the broadcast gives that
\* value to every subscriber it keeps and closes the ones it does not keep, so
\* that every subscriber in the list has received each broadcast value since
\* it subscribed, in order.
C21_SameSequence ==
    [][/\ \A e \in 1..Len(ents) :
            ents'[e].value # ents[e].value
            <=> (Disp.pc = "hfc_upd" /\ Disp.e = e /\ Disp'.pc = "hfc_get")
       /\ \A c \in 1..Len(chans) :
            Len(chans'[c].buf) > Len(chans[c].buf)
            => /\ Disp.pc = "hfc_send" /\ Disp.e = chans[c].owner
               /\ c = Head(Disp.subs)
               /\ chans'[c].buf = <<ents[Disp.e].value>>
       /\ (Disp.pc = "hfc_send" /\ Disp' # Disp /\ Disp.subs # <<>>)
            => LET c == Head(Disp.subs) IN
                \/ /\ chans'[c].buf = <<ents[Disp.e].value>> /\ ~chans'[c].closed
                   /\ Disp'.pc = "hfc_send"
                   /\ Disp'.subs = Tail(Disp.subs)
                   /\ Disp'.active = Append(Disp.active, c)
                \/ /\ Disp' = [Disp EXCEPT !.pc = "hfc_full"]
                   /\ chans' = chans /\ chans[c].buf # <<>>
       /\ (Disp.pc = "hfc_full" /\ Disp' # Disp)
            => LET c == Head(Disp.subs) IN
                /\ chans' = [chans EXCEPT ![c].closed = TRUE]
                /\ Disp' = [Disp EXCEPT !.pc = "hfc_send", !.subs = Tail(@)]
       /\ (Disp.pc = "hfc_send" /\ Disp' # Disp /\ Disp.subs = <<>>)
            => ents'[Disp.e].subs = Disp.active
       /\ UpToDate']_vars

\* C21 happens: an entity has broadcast two values in a row, B and then A;
\* the subscriber that had not taken B is closed with B in its buffer and the
\* subscriber that had taken it holds A and is still in the list.
C21_Witness ==
    \E e \in 1..Len(ents), c \in 1..Len(chans), d \in 1..Len(chans) :
        /\ chans[c].owner = e /\ chans[d].owner = e
        /\ chans[c].closed /\ chans[c].buf = <<"B">>
        /\ ~chans[d].closed /\ chans[d].buf = <<"A">>
        /\ ents[e].value = "A" /\ ents[e].subs = <<d>>
        /\ Disp.pc = "select"

\* C22: when the registry's context is cancelled or the watch source's
\* streams are closed, the dispatch loop ends and the registry is closed with
\* all its entities and channels; the loop leaves its select only for a
\* handler or for the deferred Close(), its goroutine ends only when Close()
\* is done, and a GetSecret call that returns after that has failed.
C22_LoopExitCloses ==
    /\ Ending ~> (TornDown /\ Disp.pc = "exited")
    /\ [][/\ (Disp.pc = "select" /\ Disp'.pc \notin {"select", "hfc_copy", "loop_err"})
               => Disp'.op = "Close" /\ Disp'.pc = "rc_once"
          /\ (Disp.pc = "loop_err" /\ Disp' # Disp)
               => Disp'.op = "Close" /\ Disp'.pc = "rc_once"
          /\ Disp'.pc = "exited" => closeOnce' = "done" /\ isClosed'
          /\ \A t \in Users :
               (Disp.pc = "exited" /\ GetSecretReturned(t)') => ~th'[t].r.ok]_vars

\* C22 happens: the parent context has been cancelled (no caller has called
\* Close(), no watch error has been reported, the streams are open) and the
\* dispatch goroutine is at the end of the Close() body: the entities and
\* their channels are closed.
C22_Witness ==
    /\ InBody(Dispatcher) /\ Disp.pc = "rc_loop" /\ Disp.snap = {}
    /\ ctxDone /\ isClosed
    /\ ~watcher.closed /\ LoaderErr = "nil"
    /\ Len(ents) > 0 /\ \A e \in 1..Len(ents) : ents[e].closed
    /\ Len(chans) > 0 /\ \A c \in 1..Len(chans) : chans[c].closed

\* The dispatch goroutine is handling a change event.
Handling == Disp.op = "dispatch"

\* C23: the handling of a change event always comes back to the loop's
\* select, whether or not the subscribers take the values their channels
\* hold, and an event the watch source holds is then taken by the loop.
C23_NeverBlocks ==
    /\ Handling ~> (Disp.pc = "select")
    /\ (watcher.events # <<>> /\ ~LoopEnded) ~> (watcher.events = <<>> \/ LoopEnded)

\* C23 happens: in a broadcast to two subscribers, the first had not taken the
\* previous value and has been closed, and the second, whose buffer is empty,
\* is next.
C23_Witness ==
    \E c \in 1..Len(chans), d \in 1..Len(chans) :
        /\ Disp.pc = "hfc_send" /\ Disp.subs = <<d>> /\ Disp.active = <<>>
        /\ ents[Disp.e].subs = <<c, d>>
        /\ chans[c].closed /\ chans[c].buf # <<>>
        /\ ~chans[d].closed /\ chans[d].buf = <<>>

\* The registry is closed and at rest: Close() is done, the dispatch
\* goroutine has ended and no call is in progress.
AtRest ==
    /\ closeOnce = "done"
    /\ Disp.pc = "exited"
    /\ \A t \in Users : th[t].pc \in {"idle", "returned"}

\* C24: when the registry is closed and at rest, so that nothing is left to
\* run that could close a channel, every channel ListenChanges has returned
\* from an entity that is closed is closed.
C24_ChannelsClosed ==
    AtRest => \A c \in 1..Len(chans) : ents[chans[c].owner].closed => chans[c].closed

\* C25: the constructor returns an error exactly when the factory or the
\* watcher's Add(basePath) fails (with no loader in the first case); then the
\* dispatch goroutine is never started, and no step takes an event from the
\* watch source, changes a cached value or puts a value on a channel.
C25_ConstructorFails ==
    [][/\ made' = made
       /\ made.err = "nil" <=> Disp.pc # "unstarted"
       /\ ~made.loader => made.err # "nil"
       /\ made.err # "nil"
            => /\ Disp' = Disp
               /\ Len(watcher'.events) >= Len(watcher.events)
               /\ Len(watcher'.errors) >= Len(watcher.errors)
               /\ \A e \in 1..Len(ents) : ents'[e].value = ents[e].value
               /\ \A c \in 1..Len(chans) : chans'[c].buf = chans[c].buf
       /\ ~made.loader => UNCHANGED vars]_vars

\* C25 happens: Add(basePath) had failed; a caller has used the loader that
\* was returned with the error, and the watch source holds an event for the
\* file of a secret that has a subscriber.
C25_Witness ==
    /\ made.err = "add"
    /\ watcher.events # <<>>
    /\ \E e \in 1..Len(ents) :
        /\ ents[e].path = Head(watcher.events).name
        /\ ents[e].subs # <<>>
    /\ \A t \in Users : th[t].pc = "idle"

\* C26: no step sends on a closed channel or closes a channel a second time:
\* the process never panics.
C26_NoPanic == panic = "none"

\* C27: a channel ListenChanges has made stays in the subscriber list of its
\* entity as long as the channel and the entity are open.
C27_NoLostSubscriber ==
    \A c \in 1..Len(chans) :
        (~chans[c].closed /\ ~ents[chans[c].owner].closed)
        => c \in Range(ents[chans[c].owner].subs)

\* fileSecret.Value()
Value(e) == ents[e].value

\* C28: whenever a step puts a value on a subscriber channel, Value() of the
\* channel's entity returns that value before the step and after it.
C28_ValueBeforeDelivery ==
    [][\A c \in 1..Len(chans) :
         Len(chans'[c].buf) > Len(chans[c].buf)
         => LET v == chans'[c].buf[Len(chans'[c].buf)] IN
             /\ Value(chans[c].owner) = v
             /\ Value(chans[c].owner)' = v]_vars

\* C28 happens: the broadcast has put the new value on a channel and is not
\* finished, while a caller is inside a call of its own.
C28_Witness ==
    /\ Disp.pc = "hfc_send" /\ Disp.active # <<>>
    /\ chans[Head(Disp.active)].buf = <<Disp.content>>
    /\ Value(Disp.e) = Disp.content
    /\ \E t \in Users : th[t].pc \notin {"idle", "returned"}

\* The registered entities whose key is a substring of the path.
KeyInPath(path) ==
    {secrets[k] : k \in {x \in DOMAIN secrets : secrets[x] # 0 /\ Contains(path, x)}}

\* The changed path of an event, read back from the text event.String() made
\* of it: what stands between the quotes after the padded operation.
ChangedPath(str) == SubSeq(str, 16, Len(str) - 1)

\* C29: for a Write or Create event, the dispatch loop calls handleFileChange
\* on the registered entities whose key is a substring of the event's path,
\* and on no other.
C29_DispatchByPath ==
    [][/\ (Disp.pc = "select" /\ Disp'.pc = "hfc_copy")
            => ChangedPath(Disp'.filePath) = Head(watcher.events).name
       /\ (Disp.pc = "hfc_copy" /\ Disp'.pc = "hfc_loop")
            => Disp'.snap = KeyInPath(ChangedPath(Disp.filePath))]_vars

\* C30: a step changes an entity's cached value only if it is the dispatch
\* goroutine's step after the comparison in handleFileChange, the content
\* read differs from the cached value and becomes the value; no step of a
\* caller (GetSecret, ListenChanges, Close) changes the value of an entity.
C30_ValueFrame ==
    [][/\ \A e \in 1..Len(ents) :
            Value(e)' # Value(e)
            => /\ Disp.pc = "hfc_upd" /\ Disp.e = e
               /\ Disp.content \in Contents
               /\ Disp.content # Value(e)
               /\ Value(e)' = Disp.content
       /\ \A t \in Users :
            th'[t] # th[t] => \A e \in 1..Len(ents) : Value(e)' = Value(e)]_vars

\* C30 happens: an entity whose value a broadcast has delivered has since
\* been closed by a caller's Close(), another caller holds the channel
\* ListenChanges returned for it, and its value is the one delivered.
C30_Witness ==
    \E t \in Users, u \in Users :
        /\ th[t].pc = "returned" /\ th[t].r.op = "Close"
        /\ ListenChangesReturned(u) /\ th[u].r.ok
        /\ ents[th[u].r.e].closed
        /\ chans[th[u].r.ch].buf = <<Value(th[u].r.e)>>

\* The dispatch goroutine takes an event from the watch source.
TakesEvent == Len(watcher'.events) < Len(watcher.events)

\* C31: when the dispatch loop takes an event whose operation is neither
\* Write nor Create, nothing else changes: the goroutine reads no file and
\* is back at its select, and no entity, channel, map entry, closed flag or
\* error changes; the loop starts handling a change only for a Write or a
\* Create.
C31_OtherEventIgnored ==
    [][/\ (TakesEvent /\ Head(watcher.events).op \notin {"WRITE", "CREATE"})
            => /\ Disp.pc = "select" /\ Disp' = Disp
               /\ watcher' = [watcher EXCEPT !.events = Tail(@)]
               /\ UNCHANGED <<ents, chans, secrets, isClosed, closeOnce,
                              ctxDone, lerr, panic>>
       /\ (Disp.pc = "select" /\ Disp'.pc \in {"hfc_copy", "hfc_loop", "hfc_read"})
            => /\ TakesEvent
               /\ Head(watcher.events).op \in {"WRITE", "CREATE"}]_vars

\* C31 happens: the watch source holds a Remove of the file of an open entity
\* that has a subscriber, and the dispatch loop is at its select.
C31_Witness ==
    /\ Disp.pc = "select"
    /\ watcher.events # <<>>
    /\ Head(watcher.events).op = "REMOVE"
    /\ \E e \in 1..Len(ents) :
        /\ ents[e].path = Head(watcher.events).name
        /\ ~ents[e].closed
        /\ \E c \in Range(ents[e].subs) : ~chans[c].closed

\* Entity e closed itself: it is closed and no Close() of the registry has
\* begun, so its Close() was the one handleFileChange calls when the re-read
\* fails.
SelfClosed(e) == ents[e].closed /\ closeOnce = "idle"

\* Entity e is the entry of its key in the registry map.
KeptInMap(e) == secrets[ents[e].key] = e

\* C32: an entity that closed itself is still the entry of its key in the
\* registry map; a GetSecret for its key returns it, successfully and with
\* no Stat or ReadFile, and a ListenChanges on it returns an error and no
\* channel.
C32_ClosedEntityKept ==
    [][/\ \A e \in 1..Len(ents') : SelfClosed(e)' => KeptInMap(e)'
       /\ \A e \in 1..Len(ents), t \in Users :
            (SelfClosed(e) /\ th'[t] # th[t])
            => /\ (th[t].pc = "gs_lookup" /\ th[t].key = ents[e].key)
                    => /\ GetSecretReturned(t)' /\ th'[t].r.ok
                       /\ th'[t].r.e = e
                       /\ th'[t].stat = "" /\ th'[t].content = ""
               /\ (th[t].pc = "lc_closed" /\ th[t].e = e)
                    => /\ ListenChangesReturned(t)'
                       /\ ~th'[t].r.ok /\ th'[t].r.ch = 0]_vars

\* C33: a step of a thread inside the registry's Close() changes the
\* registry's error only where it closes the watch source, and then to the
\* close failure; once Err() returns the close failure it keeps returning it.
C33_CloseError ==
    [][/\ \A t \in Threads :
            (th[t].op = "Close" /\ th'[t] # th[t] /\ LoaderErr' # LoaderErr)
            => /\ th[t].pc = "rc_err"
               /\ watcher.closed
               /\ LoaderErr' = "close"
       /\ LoaderErr = "close" => LoaderErr' = "close"]_vars

\* Thread t can take a step of the code it is in.
Runnable(t) ==
    ENABLED (LoaderClose(t) \/ SecretClose(t) \/ Loop(t) \/ SecretHandleFileChange(t)
             \/ PanicOut(t))

\* Thread t waits at a Once whose body thread u is running.
WaitsFor(t, u) ==
    \/ th[t].pc = "rc_once" /\ closeOnce = "running" /\ InBody(u)
    \/ /\ th[t].pc = "ec_once" /\ ents[th[t].e].closeOnce = "running"
       /\ InSecretBody(u, th[t].e)

\* Thread t can go on: it can take a step, or the thread it waits for can,
\* or the thread that one waits for.
Proceeds(t) ==
    \/ Runnable(t)
    \/ \E u \in Threads \ {t} :
        /\ WaitsFor(t, u)
        /\ \/ Runnable(u)
           \/ \E v \in Threads \ {t, u} : WaitsFor(u, v) /\ Runnable(v)

\* The program has been brought down by a panic of a thread other than t.
DownByOther(t) == \E u \in Threads \ {t} : th[u].pc = "fatal"

\* C34: a thread inside the registry's Close(), a caller or the dispatch
\* goroutine in its deferred call, can always go on until the call returns,
\* as long as no other thread's panic has brought the program down, and once
\* Close() has run the dispatch goroutine can go on until it has ended.
C34_CloseTerminates ==
    /\ \A t \in Threads :
        (th[t].op = "Close" /\ th[t].pc # "returned")
        => (Proceeds(t) \/ DownByOther(t))
    /\ (closeOnce = "done" /\ Disp.pc \notin {"exited", "unstarted", "fatal"} /\ ~Dead)
        => Proceeds(Dispatcher)

====
